---- MODULE Spec2Model ----
(***************************************************************************)
(* The retrieval-with-fallback layer of tradingagents.dataflows:           *)
(* FinnhubAPI (finnhub_utils.py), get_data_in_range (finnhub_utils.py),    *)
(* the five get_finnhub_* retrieval functions of interface.py, and the     *)
(* indicator window and historical price functions of interface.py.        *)
(*                                                                         *)
(* A JSON value is a record with a field t: an object [t |-> "obj", f |->  *)
(* <record of its members>], an array [t |-> "arr", items |-> <sequence>], *)
(* null [t |-> "null"] or a number [t |-> "num"].  A date string           *)
(* "YYYY-MM-DD" is the tuple <<YYYY, MM, DD>>; comparing two such strings  *)
(* as Python does (character by character) is comparing the tuples         *)
(* lexicographically.                                                      *)
(***************************************************************************)
EXTENDS Integers, Sequences, FiniteSets, TLC

VARIABLES
    config,          \* the configuration dict returned by get_config()
    environ,         \* os.environ: the value of FINNHUB_API_KEY ("" = unset)
    files,           \* the snapshot files under DATA_DIR/finnhub_data, by data_type
    pc,              \* position of the running call
    call,            \* arguments and locals of the running call
    remote_response, \* what the provider answered in this call
    result_str,      \* the local accumulator of the formatting loop
    cache_result,    \* what get_data_in_range returned in this call
    events,          \* the source events of this call, in order
    outcome,         \* what the call returned (or raised)
    prior            \* history: the call that ended before this one, when the
                     \* caller repeats a call

vars == <<config, environ, files, pc, call, remote_response, result_str,
          cache_result, events, outcome, prior>>

(***************************************************************************)
(* Bounds of the model.                                                    *)
(***************************************************************************)
MaxLookBack == 1
MaxRecs == 2
MaxKeys == 2

(***************************************************************************)
(* Dates.                                                                  *)
(***************************************************************************)
Calendar ==
    << <<2025, 2, 26>>, <<2025, 2, 27>>, <<2025, 2, 28>>,
       <<2025, 3, 1>>, <<2025, 3, 2>>, <<2025, 3, 3>>, <<2025, 3, 4>> >>

Epoch == <<1970, 1, 1>>
NoDate == <<0, 0, 0>>

\* datetime.strptime(s, "%Y-%m-%d"): the day of a date string, counted in
\* days since 1970-01-01 by the Gregorian calendar
strptime(s) ==
    LET y == IF s[2] <= 2 THEN s[1] - 1 ELSE s[1]
        era == y \div 400
        yoe == y - era * 400
        mp == (s[2] + 9) % 12
        doy == (153 * mp + 2) \div 5 + s[3] - 1
        doe == yoe * 365 + yoe \div 4 - yoe \div 100 + doy
    IN era * 146097 + doe - 719468

\* d.strftime("%Y-%m-%d"): the date string of a day
strftime(i) ==
    LET z == i + 719468
        era == z \div 146097
        doe == z - era * 146097
        yoe == (doe - doe \div 1460 + doe \div 36524 - doe \div 146096) \div 365
        doy == doe - (365 * yoe + yoe \div 4 - yoe \div 100)
        mp == (5 * doy + 2) \div 153
        m == IF mp < 10 THEN mp + 3 ELSE mp - 9
    IN <<(yoe + era * 400) + (IF m <= 2 THEN 1 ELSE 0), m,
         doy - (153 * mp + 2) \div 5 + 1>>

\* (strptime(curr_date) - relativedelta(days=look_back_days)).strftime(...)
BeforeDate(curr_date, look_back_days) == strftime(strptime(curr_date) - look_back_days)

\* Python's a <= b on two date strings
StrLeqStrict(a, b) ==
    \/ a[1] < b[1]
    \/ a[1] = b[1] /\ a[2] < b[2]
    \/ a[1] = b[1] /\ a[2] = b[2] /\ a[3] < b[3]

StrLeq(a, b) ==
    \/ a[1] < b[1]
    \/ a[1] = b[1] /\ a[2] < b[2]
    \/ a[1] = b[1] /\ a[2] = b[2] /\ a[3] <= b[3]

(***************************************************************************)
(* str() of an integer.                                                    *)
(***************************************************************************)
Digit == <<"0", "1", "2", "3", "4", "5", "6", "7", "8", "9">>

RECURSIVE NatStr(_)
NatStr(n) == IF n < 10 THEN Digit[n + 1]
             ELSE NatStr(n \div 10) \o Digit[(n % 10) + 1]

ToStr(n) == IF n < 0 THEN "-" \o NatStr(-n) ELSE NatStr(n)

(***************************************************************************)
(* JSON values.                                                            *)
(***************************************************************************)
Obj(r) == [t |-> "obj", f |-> r]
Arr(s) == [t |-> "arr", items |-> s]
JNull == [t |-> "null"]
JNum == [t |-> "num"]
EmptyObj == [t |-> "obj", f |-> [k \in {} |-> ""]]

Seqs(S, n) == UNION {[1..m -> S] : m \in 0..n}

\* Python truth value of a parsed JSON value
Truthy(j) ==
    CASE j.t = "obj" -> DOMAIN j.f # {}
      [] j.t = "arr" -> j.items # <<>>
      [] j.t = "null" -> FALSE
      [] OTHER -> TRUE

\* d.get(key, default) on a dict
Get(d, key, default) == IF key \in DOMAIN d.f THEN d.f[key] ELSE default

\* the f-string rendering of d.get(key, 'N/A') for a numeric member
GetNum(d, key) == IF key \in DOMAIN d.f THEN ToStr(d.f[key]) ELSE "N/A"

(***************************************************************************)
(* Query kinds and the records of each kind.                               *)
(***************************************************************************)
WindowedKinds == {"news", "insider_senti", "insider_trans"}
SingletonKinds == {"profile", "financials"}
Kinds == WindowedKinds \cup SingletonKinds

Tickers == {"NVDA"}

DataTypeNewsForAll(kind) == "news_data"

\* the data_type directory get_data_in_range is called with
DataType(kind) ==
    CASE kind = "news" -> "news_data"
      [] kind = "insider_senti" -> "insider_senti"
      [] kind = "insider_trans" -> "insider_trans"

RecordIds == {1, 2, 3}

\* Records of a snapshot: two complete ones and one with a member missing.
CacheRecord(kind, i) ==
    CASE kind = "news" ->
           IF i = 1 THEN Obj([headline |-> "c-h1", summary |-> "c-s1"])
           ELSE IF i = 2 THEN Obj([headline |-> "c-h2", summary |-> "c-s2"])
           ELSE Obj([headline |-> "c-h3"])
      [] kind = "insider_senti" ->
           IF i = 1 THEN Obj([year |-> 2025, month |-> 2, change |-> -5, mspr |-> 10])
           ELSE IF i = 2 THEN Obj([year |-> 2025, month |-> 2, change |-> -5, mspr |-> 20])
           ELSE Obj([year |-> 2025, month |-> 3, change |-> 5])
      [] kind = "insider_trans" ->
           IF i = 1 THEN Obj([filingDate |-> "2025-02-28", name |-> "A", change |-> -5,
                              share |-> 100, transactionPrice |-> 10,
                              transactionCode |-> "S"])
           ELSE IF i = 2 THEN Obj([filingDate |-> "2025-02-28", name |-> "A", change |-> -5,
                              share |-> 100, transactionPrice |-> 10,
                              transactionCode |-> "M"])
           ELSE Obj([filingDate |-> "2025-03-01", name |-> "B", change |-> 5,
                     transactionPrice |-> 10, transactionCode |-> "P"])

\* Records of a provider response: a complete one (1), one that relies on the
\* .get defaults (2), a JSON null where a record should be (3), another
\* complete one (4) and, for insider transactions, one whose name ends in
\* the '-' that trans_id joins with (5).
RemoteRecord(kind, i) ==
    IF i = 3 THEN JNull
    ELSE CASE kind = "news" ->
                IF i = 1 THEN Obj([datetime |-> 20148, headline |-> "r-h1", summary |-> "r-s1"])
                ELSE IF i = 2 THEN Obj([headline |-> "r-h2"])
                ELSE Obj([datetime |-> 20149, headline |-> "r-h4", summary |-> "r-s4"])
           [] kind = "insider_senti" ->
                IF i = 1 THEN Obj([year |-> 2025, month |-> 3, change |-> 7, mspr |-> 30])
                ELSE IF i = 2 THEN Obj([year |-> 2025])
                ELSE Obj([year |-> 2025, month |-> 3, change |-> 7, mspr |-> 40])
           [] kind = "insider_trans" ->
                IF i = 1
                THEN Obj([filingDate |-> "2025-03-01", name |-> "R", change |-> -7,
                          share |-> 300, transactionPrice |-> 30,
                          transactionCode |-> "S"])
                ELSE IF i = 2
                THEN Obj([filingDate |-> "2025-03-01", name |-> "R", change |-> -7,
                          share |-> 400])
                ELSE IF i = 4
                THEN Obj([filingDate |-> "2025-03-01", name |-> "Q", change |-> 9,
                          share |-> 300, transactionPrice |-> 30,
                          transactionCode |-> "S"])
                ELSE Obj([filingDate |-> "2025-03-01", name |-> "R-", change |-> 7,
                          share |-> 300, transactionPrice |-> 30,
                          transactionCode |-> "P"])

RequiredMembers(kind) ==
    CASE kind = "news" -> {"headline", "summary"}
      [] kind = "insider_senti" -> {"year", "month", "change", "mspr"}
      [] kind = "insider_trans" -> {"filingDate", "name", "change", "share",
                                    "transactionPrice", "transactionCode"}

(***************************************************************************)
(* Snapshot files.  A file is absent, or holds text that is no JSON, or    *)
(* holds a JSON value; a JSON object keeps its members in file order, as   *)
(* json.load does: [t |-> "obj", pairs |-> <<[key, value], ...>>].         *)
(***************************************************************************)
AbsentFile == [exists |-> FALSE, valid |-> FALSE, body |-> JNull]
InvalidFile == [exists |-> TRUE, valid |-> FALSE, body |-> JNull]
JsonFile(j) == [exists |-> TRUE, valid |-> TRUE, body |-> j]
Mapping(pairs) == [t |-> "obj", pairs |-> pairs]

MapRecords(kind, ids) == [r \in 1..Len(ids) |-> CacheRecord(kind, ids[r])]

\* The layout of a snapshot, with record numbers for records: what a date is
\* mapped to is a sequence of records, or a number instead of a sequence.
LayoutValues == {Arr(ids) : ids \in Seqs(RecordIds, MaxRecs)} \cup {JNum}

DistinctKeys(pairs) ==
    \A m, n \in 1..Len(pairs) : m # n => pairs[m].key # pairs[n].key

SpecialLayouts == {AbsentFile, InvalidFile, JsonFile(Arr(<<>>))}

\* snapshots of at most n dates
Layouts(keys, values, n) ==
    SpecialLayouts
        \cup {JsonFile(Mapping(p)) :
                p \in {q \in Seqs([key : keys, value : values], n) : DistinctKeys(q)}}

\* snapshots of at most one date
OneDateLayouts(keys, values) ==
    SpecialLayouts
        \cup {JsonFile(Mapping(<<>>))}
        \cup {JsonFile(Mapping(<<p>>)) : p \in [key : keys, value : values]}

\* the snapshot of one kind with a given layout
Snapshot(kind, layout) ==
    IF layout.exists /\ layout.valid /\ layout.body.t = "obj"
    THEN LET pairs == layout.body.pairs
         IN JsonFile(Mapping(
                [n \in 1..Len(pairs) |->
                    [key |-> pairs[n].key,
                     value |-> IF pairs[n].value.t = "arr"
                               THEN Arr(MapRecords(kind, pairs[n].value.items))
                               ELSE pairs[n].value]]))
    ELSE layout

\* the snapshot directories and the kind of records each holds
DataTypes == {"news_data", "insider_senti", "insider_trans"}
KindOf(data_type) == IF data_type = "news_data" THEN "news" ELSE data_type

Store(layout) == [dt \in DataTypes |-> Snapshot(KindOf(dt), layout)]

(***************************************************************************)
(* get_data_in_range (finnhub_utils.py): the in-window, non-empty part of  *)
(* a snapshot, or the exception it raises.                                 *)
(***************************************************************************)
Returned(data) == [exc |-> "", data |-> data]
Raised(name) == [exc |-> name, data |-> <<>>]

InRangeStrict(key, start_date, end_date) ==
    StrLeqStrict(start_date, key) /\ StrLeqStrict(key, end_date)

\* start_date <= key <= end_date
InRange(key, start_date, end_date) ==
    StrLeq(start_date, key) /\ StrLeq(key, end_date)

KeepDateAlways(value) == TRUE

\* len(value) > 0
KeepDate(value) == Len(value.items) > 0

RECURSIVE FilterLoop(_, _, _, _, _)
FilterLoop(pairs, start_date, end_date, i, filtered_data) ==
    IF i > Len(pairs) THEN Returned(filtered_data)
    ELSE LET key == pairs[i].key
             value == pairs[i].value
         IN IF ~InRange(key, start_date, end_date)
            THEN FilterLoop(pairs, start_date, end_date, i + 1, filtered_data)
            ELSE IF value.t # "arr"
            THEN Raised("TypeError")
            ELSE IF KeepDate(value)
            THEN FilterLoop(pairs, start_date, end_date, i + 1,
                            Append(filtered_data, pairs[i]))
            ELSE FilterLoop(pairs, start_date, end_date, i + 1, filtered_data)

\* a file opened with mode "w" is emptied
open_w(file) == InvalidFile

\* with open(data_path, "r") as f: the file once the block is left
open_r(file) == file

\* the snapshot once get_data_in_range has returned or raised
AfterRead(file) == IF file.exists THEN open_r(file) ELSE file

get_data_in_range(file, start_date, end_date) ==
    IF ~file.exists THEN Returned(<<>>)
    ELSE IF ~file.valid THEN Returned(<<>>)
    ELSE IF file.body.t # "obj" THEN Raised("AttributeError")
    ELSE FilterLoop(file.body.pairs, start_date, end_date, 1, <<>>)

(***************************************************************************)
(* FinnhubAPI (finnhub_utils.py).  A response is what requests.get met:    *)
(* status "ok" with a parsed JSON body, or a transport failure, a non-2xx  *)
(* status or a body that is no JSON (all of them RequestException).        *)
(***************************************************************************)
FailureStatuses == {"transport", "http", "badjson"}
Failure(status) == [status |-> status, body |-> JNull]
Ok(body) == [status |-> "ok", body |-> body]
NoResponse == [status |-> "none", body |-> JNull]

\* what the try block of _make_request raises: requests.get on a transport
\* failure, raise_for_status on a non-2xx status, response.json() on a body
\* that is no JSON
RaisedInTry(resp) ==
    CASE resp.status = "transport" -> "ConnectionError"
      [] resp.status = "http" -> "HTTPError"
      [] resp.status = "badjson" -> "JSONDecodeError"
      [] OTHER -> ""

RequestExceptionBeforeJson == {"ConnectionError", "Timeout", "HTTPError"}

\* the classes `except requests.exceptions.RequestException` catches
RequestException == {"ConnectionError", "Timeout", "HTTPError", "JSONDecodeError"}

\* the exception that leaves _make_request ("" when it returns)
Propagates(resp) ==
    IF RaisedInTry(resp) \in RequestException THEN "" ELSE RaisedInTry(resp)

\* what _make_request returns
_make_request(resp) == IF RaisedInTry(resp) = "" THEN resp.body ELSE EmptyObj

\* result if isinstance(result, list) else []
get_company_news(resp) ==
    LET result == _make_request(resp)
    IN IF result.t = "arr" THEN result.items ELSE <<>>

get_insider_sentiment(resp) == _make_request(resp)
get_insider_transactions(resp) == _make_request(resp)
get_company_profile(resp) == _make_request(resp)
get_basic_financials(resp) == _make_request(resp)

RemoteRecords(kind, ids) == [r \in 1..Len(ids) |-> RemoteRecord(kind, ids[r])]
RemoteLists(kind) == {RemoteRecords(kind, ids) : ids \in Seqs(RecordIds, MaxRecs)}

ProfileBodies ==
    { EmptyObj,
      Obj([name |-> "NVIDIA Corp", finnhubIndustry |-> "Semiconductors",
           marketCapitalization |-> 4000]),
      Obj([name |-> "NVIDIA Corp", description |-> "Designs GPUs"]),
      Arr(<<JNull>>) }

FinancialsBodies ==
    { EmptyObj,
      Obj([error |-> "limit"]),
      Obj([metric |-> Obj([peBasicExclExtraTTM |-> 50, roeTTM |-> 90])]),
      Obj([metric |-> JNull]) }

Bodies(kind) ==
    CASE kind = "news" ->
           {Arr(l) : l \in RemoteLists(kind)} \cup {Obj([error |-> "limit"])}
      [] kind \in {"insider_senti", "insider_trans"} ->
           {Obj([data |-> Arr(l)]) : l \in RemoteLists(kind)}
               \cup {EmptyObj, Obj([error |-> "limit"]), Obj([data |-> JNull]),
                     Arr(<<JNull>>)}
      [] kind = "profile" -> ProfileBodies
      [] kind = "financials" -> FinancialsBodies

Responses(kind) ==
    {Failure(st) : st \in FailureStatuses} \cup {Ok(b) : b \in Bodies(kind)}

(***************************************************************************)
(* The real-time branch of the retrieval functions (interface.py).  An     *)
(* entry of a report is the record of the values its lines print; src and  *)
(* raw are history members telling which branch printed it and for which   *)
(* record of the source.                                                   *)
(***************************************************************************)
\* datetime.fromtimestamp(ts).strftime('%Y-%m-%d'); a timestamp is counted in days
fromtimestamp(ts) == strftime(ts)

RemoteEntry(kind, e) ==
    CASE kind = "news" ->
           [src |-> "remote", raw |-> e,
            headline |-> Get(e, "headline", "No headline"),
            date |-> fromtimestamp(Get(e, "datetime", 0)),
            summary |-> Get(e, "summary", "No summary available")]
      [] kind = "insider_senti" ->
           [src |-> "remote", raw |-> e,
            year |-> GetNum(e, "year"), month |-> GetNum(e, "month"),
            change |-> GetNum(e, "change"), mspr |-> GetNum(e, "mspr")]
      [] kind = "insider_trans" ->
           [src |-> "remote", raw |-> e,
            filingDate |-> Get(e, "filingDate", "N/A"),
            name |-> Get(e, "name", "N/A"),
            change |-> GetNum(e, "change"),
            share |-> GetNum(e, "share"),
            transactionPrice |-> GetNum(e, "transactionPrice"),
            transactionCode |-> Get(e, "transactionCode", "N/A")]

\* f"{entry.get('filingDate', '')}-{entry.get('name', '')}-{entry.get('change', '')}"
trans_id(e) ==
    Get(e, "filingDate", "") \o "-" \o Get(e, "name", "") \o "-"
        \o (IF "change" \in DOMAIN e.f THEN ToStr(e.f["change"]) ELSE "")

\* The for loop of the real-time branch: it stops at the first entry whose
\* .get raises (an entry that is no dict), leaving the text built so far.
RECURSIVE RemoteLoop(_, _, _, _, _)
RemoteLoop(kind, items, i, text, seen) ==
    IF i > Len(items) THEN [exc |-> FALSE, text |-> text, seen |-> seen]
    ELSE LET e == items[i]
         IN IF e.t # "obj" THEN [exc |-> TRUE, text |-> text, seen |-> seen]
            ELSE IF kind = "insider_trans"
            THEN IF trans_id(e) \in seen
                 THEN RemoteLoop(kind, items, i + 1, text, seen)
                 ELSE RemoteLoop(kind, items, i + 1,
                                 Append(text, RemoteEntry(kind, e)),
                                 seen \cup {trans_id(e)})
            ELSE RemoteLoop(kind, items, i + 1,
                            Append(text, RemoteEntry(kind, e)), seen)

\* What the try block ends with: a returned report (ret), or a fall through
\* to the code after it, with the accumulator as the loop left it.
RetFalls(text) == [ret |-> FALSE, text |-> text]
Ret(text) == [ret |-> TRUE, text |-> text]
Fall(text) == [ret |-> FALSE, text |-> text]

\* if news_data:
NewsUsable(news_data) == news_data # <<>>

\* if sentiment_data and 'data' in sentiment_data:
DataUsable(d) == d.t = "obj" /\ DOMAIN d.f # {} /\ "data" \in DOMAIN d.f

remote_news(resp) ==
    LET news_data == get_company_news(resp)
    IN IF NewsUsable(news_data)
       THEN LET r == RemoteLoop("news", news_data, 1, <<>>, {})
            IN IF r.exc THEN Fall(r.text) ELSE Ret(r.text)
       ELSE Fall(<<>>)

\* seen_transactions = set(): prev is the set an earlier call was left with
FreshSeenTransactions(prev) == {}

\* prev is seen_transactions of the call that ended before this one; the
\* result carries seen_transactions as the loop left it
remote_insider(kind, resp, prev) ==
    LET d == IF kind = "insider_senti" THEN get_insider_sentiment(resp)
             ELSE get_insider_transactions(resp)
    IN IF DataUsable(d)
       THEN IF d.f["data"].t # "arr" THEN Fall(<<>>)
            ELSE LET r == RemoteLoop(kind, d.f["data"].items, 1, <<>>,
                                     FreshSeenTransactions(prev))
                 IN [seen |-> r.seen] @@ (IF r.exc THEN Fall(r.text) ELSE Ret(r.text))
       ELSE Fall(<<>>)

DescriptionLimit == 500

\* profile_data['description'][:500] + ('...' if longer)
Description(s) ==
    IF Len(s) > DescriptionLimit THEN SubSeq(s, 1, DescriptionLimit) \o "..." ELSE s

ProfileEntry(p) ==
    [src |-> "remote",
     name |-> Get(p, "name", "N/A"),
     finnhubIndustry |-> Get(p, "finnhubIndustry", "N/A"),
     marketCapitalization |-> GetNum(p, "marketCapitalization"),
     country |-> Get(p, "country", "N/A"),
     currency |-> Get(p, "currency", "N/A"),
     exchange |-> Get(p, "exchange", "N/A"),
     ipo |-> Get(p, "ipo", "N/A"),
     shareOutstanding |-> GetNum(p, "shareOutstanding"),
     weburl |-> Get(p, "weburl", "N/A"),
     description |-> IF "description" \in DOMAIN p.f
                     THEN Description(p.f["description"]) ELSE ""]

remote_profile(resp) ==
    LET profile_data == get_company_profile(resp)
    IN IF Truthy(profile_data)
       THEN IF profile_data.t # "obj" THEN Fall(<<>>)
            ELSE Ret(<<ProfileEntry(profile_data)>>)
       ELSE Fall(<<>>)

MetricNames ==
    <<"peBasicExclExtraTTM", "pbAnnual", "psAnnual", "evEbitdaTTM",
      "roeTTM", "roaTTM", "roiTTM", "grossMarginTTM", "operatingMarginTTM",
      "netProfitMarginTTM", "currentRatioAnnual", "quickRatioAnnual",
      "totalDebtToEquityAnnual", "longTermDebtCapitalAnnual",
      "revenueGrowthTTMYoy", "epsGrowthTTMYoy">>

FinancialsEntry(metrics) ==
    [src |-> "remote",
     values |-> [n \in 1..Len(MetricNames) |-> GetNum(metrics, MetricNames[n])]]

remote_financials(resp) ==
    LET financials_data == get_basic_financials(resp)
    IN IF financials_data.t = "obj"
          /\ DOMAIN financials_data.f # {} /\ "metric" \in DOMAIN financials_data.f
       THEN IF financials_data.f["metric"].t # "obj" THEN Fall(<<>>)
            ELSE Ret(<<FinancialsEntry(financials_data.f["metric"])>>)
       ELSE Fall(<<>>)

RemoteBranch(kind, resp, prev) ==
    CASE kind = "news" -> remote_news(resp)
      [] kind \in {"insider_senti", "insider_trans"} -> remote_insider(kind, resp, prev)
      [] kind = "profile" -> remote_profile(resp)
      [] kind = "financials" -> remote_financials(resp)

(***************************************************************************)
(* The cached branch of the windowed retrieval functions (interface.py).   *)
(***************************************************************************)
CacheEntry(kind, day, e) ==
    CASE kind = "news" ->
           [src |-> "cache", raw |-> e, headline |-> e.f["headline"], date |-> day,
            summary |-> e.f["summary"]]
      [] kind = "insider_senti" ->
           [src |-> "cache", raw |-> e,
            year |-> ToStr(e.f["year"]), month |-> ToStr(e.f["month"]),
            change |-> ToStr(e.f["change"]), mspr |-> ToStr(e.f["mspr"])]
      [] kind = "insider_trans" ->
           [src |-> "cache", raw |-> e,
            filingDate |-> e.f["filingDate"], name |-> e.f["name"],
            change |-> ToStr(e.f["change"]), share |-> ToStr(e.f["share"]),
            transactionPrice |-> ToStr(e.f["transactionPrice"]),
            transactionCode |-> e.f["transactionCode"]]

\* entry["..."] raises for an entry that is no dict (TypeError) or lacks one
\* of the members the line prints (KeyError)
EntryError(kind, e) ==
    IF e.t # "obj" THEN "TypeError"
    ELSE IF ~(RequiredMembers(kind) \subseteq DOMAIN e.f) THEN "KeyError"
    ELSE ""

\* The records of the filtered snapshot, date by date, with their dates.
RECURSIVE Flatten(_, _)
Flatten(data, i) ==
    IF i > Len(data) THEN <<>>
    ELSE [n \in 1..Len(data[i].value.items) |->
              [day |-> data[i].key, entry |-> data[i].value.items[n]]]
         \o Flatten(data, i + 1)

\* if entry not in seen_dicts (news has no such test)
IsNewKeepAll(kind, e, seen_dicts) == TRUE
IsNewForEveryKind(kind, e, seen_dicts) ==
    \A n \in 1..Len(seen_dicts) : seen_dicts[n] # e
IsNew(kind, e, seen_dicts) ==
    kind = "news" \/ \A n \in 1..Len(seen_dicts) : seen_dicts[n] # e

RECURSIVE CacheLoop(_, _, _, _, _)
CacheLoop(kind, recs, i, text, seen_dicts) ==
    IF i > Len(recs) THEN [exc |-> "", text |-> text, seen_dicts |-> seen_dicts]
    ELSE LET e == recs[i].entry
         IN IF ~IsNew(kind, e, seen_dicts)
            THEN CacheLoop(kind, recs, i + 1, text, seen_dicts)
            ELSE IF EntryError(kind, e) # ""
            THEN [exc |-> EntryError(kind, e), text |-> text, seen_dicts |-> seen_dicts]
            ELSE CacheLoop(kind, recs, i + 1,
                           Append(text, CacheEntry(kind, recs[i].day, e)),
                           Append(seen_dicts, e))

CacheInitialKeep(partial) == partial

\* combined_result = "" / result_str = "" before the cached loop
CacheInitial(partial) == <<>>

SameSeenDicts(prev) == prev

\* seen_dicts = []: prev is the list an earlier call was left with
FreshSeenDicts(prev) == <<>>

(***************************************************************************)
(* What a call hands back to its caller.                                   *)
(***************************************************************************)
Report(tag, c, entries) ==
    [type |-> "report", tag |-> tag, kind |-> c.kind, ticker |-> c.ticker,
     before |-> c.before, curr_date |-> c.curr_date, entries |-> entries]

\* "No ... data available for {ticker} from {before} to {curr_date}" and
\* "... not available for {ticker}"
NoDataMessage(c) ==
    [type |-> "message", tag |-> "No data", kind |-> c.kind, ticker |-> c.ticker,
     before |-> c.before, curr_date |-> c.curr_date, entries |-> <<>>]

Exception(name, c) ==
    [type |-> "exception", tag |-> name, kind |-> c.kind, ticker |-> c.ticker,
     before |-> c.before, curr_date |-> c.curr_date, entries |-> <<>>]

RealTimeTag(kind) == IF kind \in WindowedKinds THEN "Real-time" ELSE "Live"

NoCall == [kind |-> "", ticker |-> "", curr_date |-> NoDate, look_back_days |-> 0,
           before |-> NoDate, api_key |-> "", seen_transactions |-> {},
           seen_dicts |-> <<>>]
NoOutcome == [type |-> "none", tag |-> "", kind |-> "", ticker |-> "",
              before |-> NoDate, curr_date |-> NoDate, entries |-> <<>>]
NoCacheResult == [exc |-> "none", data |-> <<>>]
NoPrior == [exists |-> FALSE, pc |-> "idle", call |-> NoCall,
            remote_response |-> NoResponse, outcome |-> NoOutcome]

(***************************************************************************)
(* Configuration (default_config.py) and the routing test of interface.py. *)
(***************************************************************************)
Configs == [finnhub_api_key : {"", "cfg-key"},
            use_finnhub_api : {"absent", "true", "false"}]
Environs == {"", "env-key"}

\* config.get("finnhub_api_key") or os.getenv("FINNHUB_API_KEY")
ApiKey(cfg, env) == IF cfg.finnhub_api_key # "" THEN cfg.finnhub_api_key ELSE env

AttemptRemoteIgnoringFlag(key, cfg) == key # ""

\* if finnhub_api_key and config.get("use_finnhub_api", True):
AttemptRemote(key, cfg) == key # "" /\ cfg.use_finnhub_api # "false"

FallThroughRetry(kind) == "ATTEMPT_REMOTE"
FallThroughNoCache(kind) == "returned"

\* where control is after the try block ended without a return
FallThrough(kind) == IF kind \in WindowedKinds THEN "USE_CACHE" ELSE "returned"

(***************************************************************************)
(* The retrieval protocol.                                                 *)
(***************************************************************************)
CurrDates == {Calendar[4], Calendar[5]}
SnapshotKeys == {Calendar[3], Calendar[4], Calendar[5]}

Init ==
    /\ config \in Configs
    /\ environ \in Environs
    /\ files \in {Store(l) : l \in OneDateLayouts(SnapshotKeys, LayoutValues)}
    /\ pc = "idle"
    /\ call = NoCall
    /\ remote_response = NoResponse
    /\ result_str = <<>>
    /\ cache_result = NoCacheResult
    /\ events = <<>>
    /\ outcome = NoOutcome
    /\ prior = NoPrior

Enter(c) ==
    /\ call' = c
    /\ remote_response' = NoResponse
    /\ result_str' = <<>>
    /\ cache_result' = NoCacheResult
    /\ events' = <<>>
    /\ IF AttemptRemote(c.api_key, config)
       THEN pc' = "ATTEMPT_REMOTE" /\ outcome' = NoOutcome
       ELSE /\ pc' = FallThrough(c.kind)
            /\ outcome' = IF c.kind \in WindowedKinds THEN NoOutcome
                          ELSE NoDataMessage(c)
    /\ UNCHANGED <<config, environ, files>>

\* the locals of a call before it has bound them
Frame(args) == args @@ [seen_transactions |-> {}, seen_dicts |-> <<>>]

\* get_finnhub_news, get_finnhub_company_insider_sentiment and
\* get_finnhub_company_insider_transactions up to the routing test
Invoke(kind, ticker, curr_date, look_back_days) ==
    /\ pc = "idle"
    /\ Enter(Frame([kind |-> kind, ticker |-> ticker, curr_date |-> curr_date,
                    look_back_days |-> look_back_days,
                    before |-> BeforeDate(curr_date, look_back_days),
                    api_key |-> ApiKey(config, environ)]))
    /\ UNCHANGED prior

\* get_finnhub_company_profile and get_finnhub_basic_financials likewise
InvokeSingleton(kind, ticker) ==
    /\ pc = "idle"
    /\ Enter(Frame([kind |-> kind, ticker |-> ticker, curr_date |-> NoDate,
                    look_back_days |-> 0, before |-> NoDate,
                    api_key |-> ApiKey(config, environ)]))
    /\ UNCHANGED prior

\* the try block: the provider's answer arrives and is formatted
RemoteRespond(resp) ==
    /\ pc = "ATTEMPT_REMOTE"
    /\ remote_response' = resp
    /\ events' = Append(events, "remote")
    /\ LET r == RemoteBranch(call.kind, resp, prior.call.seen_transactions)
       IN /\ result_str' = r.text
          /\ call' = IF "seen" \in DOMAIN r
                     THEN [call EXCEPT !.seen_transactions = r.seen] ELSE call
          /\ IF r.ret
             THEN /\ pc' = "returned"
                  /\ outcome' = Report(RealTimeTag(call.kind), call, r.text)
             ELSE /\ pc' = FallThrough(call.kind)
                  /\ outcome' = IF call.kind \in WindowedKinds THEN NoOutcome
                                ELSE NoDataMessage(call)
    /\ UNCHANGED <<config, environ, files, cache_result, prior>>

\* the code after the try block of a windowed retrieval function
CacheRead ==
    /\ pc = "USE_CACHE"
    /\ events' = Append(events, "cache")
    /\ LET data == get_data_in_range(files[DataType(call.kind)],
                                     call.before, call.curr_date)
       IN /\ cache_result' = data
          /\ IF data.exc # ""
             THEN /\ pc' = "raised"
                  /\ outcome' = Exception(data.exc, call)
                  /\ UNCHANGED <<result_str, call>>
             ELSE IF Len(data.data) = 0
             THEN /\ pc' = "returned"
                  /\ outcome' = NoDataMessage(call)
                  /\ UNCHANGED <<result_str, call>>
             ELSE LET r == CacheLoop(call.kind, Flatten(data.data, 1), 1,
                                     CacheInitial(result_str),
                                     FreshSeenDicts(prior.call.seen_dicts))
                  IN /\ result_str' = r.text
                     /\ call' = [call EXCEPT !.seen_dicts = r.seen_dicts]
                     /\ IF r.exc # ""
                        THEN pc' = "raised" /\ outcome' = Exception(r.exc, call)
                        ELSE /\ pc' = "returned"
                             /\ outcome' = Report("Cached", call, r.text)
    /\ files' = [files EXCEPT ![DataType(call.kind)] = AfterRead(@)]
    /\ UNCHANGED <<config, environ, remote_response, prior>>

\* the caller takes the result; the locals of the call are gone
Return ==
    /\ pc \in {"returned", "raised"}
    /\ pc' = "idle"
    /\ call' = NoCall
    /\ remote_response' = NoResponse
    /\ result_str' = <<>>
    /\ cache_result' = NoCacheResult
    /\ events' = <<>>
    /\ outcome' = NoOutcome
    /\ prior' = NoPrior
    /\ UNCHANGED <<config, environ, files>>

Next ==
    \/ \E kind \in WindowedKinds, ticker \in Tickers, curr_date \in CurrDates,
          look_back_days \in 0..MaxLookBack :
          Invoke(kind, ticker, curr_date, look_back_days)
    \/ \E kind \in SingletonKinds, ticker \in Tickers : InvokeSingleton(kind, ticker)
    \/ pc = "ATTEMPT_REMOTE" /\ \E resp \in Responses(call.kind) : RemoteRespond(resp)
    \/ CacheRead
    \/ Return

Spec == Init /\ [][Next]_vars

(***************************************************************************)
(* Direct queries of the snapshot store: get_data_in_range called with any *)
(* window, over snapshots of several dates.                                *)
(***************************************************************************)
RangeKeys == {Calendar[2], Calendar[3], Calendar[4], Calendar[5]}
RangeValues == {Arr(<<>>), Arr(<<1>>), Arr(<<1, 2>>), JNum}
RangeDates == {Calendar[i] : i \in 1..6}

InitRange ==
    /\ config = [finnhub_api_key |-> "", use_finnhub_api |-> "absent"]
    /\ environ = ""
    /\ files \in {Store(l) : l \in Layouts(RangeKeys, RangeValues, MaxKeys)}
    /\ pc = "idle"
    /\ call = NoCall
    /\ remote_response = NoResponse
    /\ result_str = <<>>
    /\ cache_result = NoCacheResult
    /\ events = <<>>
    /\ outcome = NoOutcome
    /\ prior = NoPrior

\* get_data_in_range(ticker, start_date, end_date, data_type, DATA_DIR)
RangeQuery(ticker, start_date, end_date, data_type) ==
    /\ pc = "idle"
    /\ LET c == [kind |-> KindOf(data_type), ticker |-> ticker,
                 curr_date |-> end_date, look_back_days |-> 0,
                 before |-> start_date, api_key |-> ""]
           data == get_data_in_range(files[data_type], start_date, end_date)
       IN /\ call' = c
          /\ cache_result' = data
          /\ events' = <<"cache">>
          /\ pc' = IF data.exc # "" THEN "raised" ELSE "returned"
          /\ outcome' = IF data.exc # "" THEN Exception(data.exc, c) ELSE NoOutcome
    /\ files' = [files EXCEPT ![data_type] = AfterRead(@)]
    /\ UNCHANGED <<config, environ, remote_response, result_str, prior>>

NextRange ==
    \/ \E ticker \in Tickers, start_date \in RangeDates, end_date \in RangeDates,
          data_type \in DataTypes : RangeQuery(ticker, start_date, end_date, data_type)
    \/ Return

SpecRange == InitRange /\ [][NextRange]_vars

(***************************************************************************)
(* Data with repeated records: the loops of the insider functions, which   *)
(* skip what they have printed before, and of the news function, which     *)
(* does not, run over provider answers of up to MaxDedup records and       *)
(* snapshots of up to MaxKeys dates.                                       *)
(***************************************************************************)
MaxDedup == 3

InsiderKinds == {"insider_senti", "insider_trans"}
DedupRemoteIds == {1, 2, 4, 5}
DedupCacheIds == {1, 2}
DedupKeys == {Calendar[4], Calendar[5]}
DedupValues == {Arr(ids) : ids \in Seqs(DedupCacheIds, MaxRecs)}

DedupResponses(kind) ==
    {Failure("http")}
        \cup {Ok(IF kind = "news" THEN Arr(RemoteRecords(kind, ids))
                 ELSE Obj([data |-> Arr(RemoteRecords(kind, ids))])) :
                ids \in Seqs(DedupRemoteIds, MaxDedup)}

InitDedup ==
    /\ config \in [finnhub_api_key : {"cfg-key"}, use_finnhub_api : {"true", "false"}]
    /\ environ = ""
    /\ files \in {Store(l) : l \in Layouts(DedupKeys, DedupValues, MaxKeys)
                                     \ SpecialLayouts}
    /\ pc = "idle"
    /\ call = NoCall
    /\ remote_response = NoResponse
    /\ result_str = <<>>
    /\ cache_result = NoCacheResult
    /\ events = <<>>
    /\ outcome = NoOutcome
    /\ prior = NoPrior

NextDedup ==
    \/ \E kind \in WindowedKinds, ticker \in Tickers, look_back_days \in 0..MaxLookBack :
          Invoke(kind, ticker, Calendar[5], look_back_days)
    \/ pc = "ATTEMPT_REMOTE" /\ \E resp \in DedupResponses(call.kind) : RemoteRespond(resp)
    \/ CacheRead
    \/ Return

SpecDedup == InitDedup /\ [][NextDedup]_vars

(***************************************************************************)
(* A call repeated: the caller takes the result of a retrieval call and    *)
(* makes the same call again, the configuration and the snapshots being    *)
(* what they were and the provider answering what it answered.  The call   *)
(* that ended is kept in prior, with its locals as it left them.           *)
(***************************************************************************)
Again ==
    /\ pc \in {"returned", "raised"}
    /\ ~prior.exists
    /\ prior' = [exists |-> TRUE, pc |-> pc, call |-> call,
                 remote_response |-> remote_response, outcome |-> outcome]
    /\ Enter(Frame([kind |-> call.kind, ticker |-> call.ticker,
                    curr_date |-> call.curr_date,
                    look_back_days |-> call.look_back_days,
                    before |-> BeforeDate(call.curr_date, call.look_back_days),
                    api_key |-> ApiKey(config, environ)]))

NextTwice ==
    \/ \E kind \in WindowedKinds, ticker \in Tickers, look_back_days \in 0..MaxLookBack :
          Invoke(kind, ticker, Calendar[5], look_back_days)
    \/ /\ pc = "ATTEMPT_REMOTE"
       \* any answer in a first call, the same answer in its repetition
       /\ \E resp \in DedupResponses(call.kind) :
             /\ prior.exists => resp = prior.remote_response
             /\ RemoteRespond(resp)
    \/ CacheRead
    \/ Again
    \/ Return

SpecTwice == InitDedup /\ [][NextTwice]_vars

(***************************************************************************)
(* Technical indicators and historical prices (interface.py):              *)
(* get_stock_stats_indicators_window, get_stockstats_indicator,            *)
(* get_YFin_data_window and get_YFin_data over the price snapshot          *)
(* market_data/price_data/<symbol>-YFin-data-2015-01-01-2025-03-25.csv.    *)
(* A row of the snapshot is its Date: a day and the UTC offset in hours of *)
(* the midnight it names (0 for a plain "YYYY-MM-DD").                     *)
(***************************************************************************)
MaxWindow == 3
\* look_back_days ranges over (0 - NegativeLookBack)..MaxWindow
NegativeLookBack == 2

\* the keys of best_ind_params, in order
best_ind_params ==
    <<"close_50_sma", "close_200_sma", "close_10_ema", "macd", "macds", "macdh",
      "rsi", "boll", "boll_ub", "boll_lb", "atr", "vwma", "mfi">>

\* the two dates in the name of the snapshot file and in get_YFin_data
SnapshotLower == <<2015, 1, 1>>
SnapshotUpper == <<2025, 3, 25>>

SupportedAlways(indicator) == TRUE

\* indicator in best_ind_params
Supported(indicator) ==
    \E n \in 1..Len(best_ind_params) : best_ind_params[n] = indicator

\* data["Date"].str[:10]
DateOnly(row) == row.day

\* pd.to_datetime(data["Date"], utc=True).astype(str).str[:10]: midnight at a
\* positive offset is the evening before in UTC
to_datetime_utc(row) ==
    IF row.utc_offset > 0 THEN strftime(strptime(row.day) - 1) ELSE row.day

PriceDays == {<<2015, 1, 2>>, <<2025, 2, 27>>, <<2025, 2, 28>>, <<2025, 3, 3>>,
              <<2025, 3, 25>>}
UtcOffsets == {0, -5, 9}

\* the rows of a snapshot, oldest first
RECURSIVE SortedRows(_, _)
SortedRows(days, utc_offset) ==
    IF days = {} THEN <<>>
    ELSE LET first == CHOOSE d \in days : \A e \in days : strptime(d) <= strptime(e)
         IN <<[day |-> first, utc_offset |-> utc_offset]>>
                \o SortedRows(days \ {first}, utc_offset)

NoPriceFile == [exists |-> FALSE, rows |-> <<>>]
PriceFile(rows) == [exists |-> TRUE, rows |-> rows]
PriceFiles ==
    {NoPriceFile}
        \cup {PriceFile(SortedRows(days, o)) : days \in SUBSET PriceDays, o \in UtcOffsets}

\* pd.read_csv of the snapshot
read_csv(file) == IF file.exists THEN Returned(file.rows) ELSE Raised("FileNotFoundError")

\* StockstatsUtils.get_stock_stats: a value, or an exception
StockStats == {[exc |-> TRUE, value |-> 0], [exc |-> FALSE, value |-> 52]}

get_stockstats_indicator_uncaught(stats) ==
    IF stats.exc THEN Raised("Exception") ELSE Returned(ToStr(stats.value))

\* try: indicator_value = get_stock_stats(...); except Exception: return "";
\* return str(indicator_value)
get_stockstats_indicator(stats) ==
    IF stats.exc THEN Returned("") ELSE Returned(ToStr(stats.value))

TwoDaysBack(cursor) == cursor - 2

\* curr_date = curr_date - relativedelta(days=1)
PreviousDay(cursor) == cursor - 1

WalkContinuesStrict(cursor, before) == cursor > before

\* while curr_date >= before
WalkContinues(cursor, before) == cursor >= before

TradingDayAlways(date, dates_in_df) == TRUE

\* if curr_date.strftime("%Y-%m-%d") in dates_in_df.values
TradingDay(date, dates_in_df) == date \in dates_in_df

AboveUpperOrEqual(end_date) == StrLeq(SnapshotUpper, end_date)

\* if end_date > "2025-03-25"
AboveUpper(end_date) == ~StrLeq(end_date, SnapshotUpper)

SliceHalfOpen(rows, start_date, end_date) ==
    SelectSeq(rows, LAMBDA r : StrLeq(start_date, DateOnly(r))
                                  /\ StrLeqStrict(DateOnly(r), end_date))

\* data[(data["DateOnly"] >= start_date) & (data["DateOnly"] <= end_date)]
Slice(rows, start_date, end_date) ==
    SelectSeq(rows, LAMBDA r : StrLeq(start_date, DateOnly(r))
                                  /\ StrLeq(DateOnly(r), end_date))

\* raise ValueError(f"Indicator {indicator} is not supported. Please choose
\* from: {list(best_ind_params.keys())}")
ValueError(indicator) ==
    [type |-> "exception", tag |-> "ValueError", indicator |-> indicator,
     names |-> best_ind_params]

\* raise Exception(f"Get_YFin_Data: {end_date} is outside of the data range of
\* 2015-01-01 to 2025-03-25")
OutsideRange(end_date) ==
    [type |-> "exception", tag |-> "Exception", end_date |-> end_date,
     lower |-> SnapshotLower, upper |-> SnapshotUpper]

FileNotFoundError == [type |-> "exception", tag |-> "FileNotFoundError"]

\* "## {indicator} values from {before} to {end_date}:" + ind_string + the
\* description of the indicator
IndicatorReport(c, ind_string) ==
    [type |-> "report", kind |-> c.kind, indicator |-> c.indicator,
     before |-> strftime(c.before), end_date |-> c.end_date,
     samples |-> ind_string, description |-> c.indicator]

\* "## Raw Market Data for {symbol} from {start_date} to {curr_date}:" + rows
RawMarketData(c, rows) ==
    [type |-> "report", kind |-> c.kind, symbol |-> c.symbol,
     start_date |-> c.start_date, end_date |-> c.end_date, rows |-> rows]

\* the filtered DataFrame get_YFin_data returns
DataFrame(rows) == [type |-> "frame", rows |-> rows]

IndicatorNames == {"rsi", "mfi", "sma_50"}
IndicatorDates == {<<2025, 3, 3>>, <<2025, 3, 4>>}
HistoryDates == {<<2014, 12, 31>>, <<2015, 1, 2>>, <<2025, 2, 28>>, <<2025, 3, 25>>,
                 <<2025, 3, 26>>}
HistoryWindowDates == {<<2015, 1, 1>>, <<2025, 3, 25>>, <<2025, 3, 26>>, <<2025, 3, 27>>}

InitPrices ==
    /\ config = [finnhub_api_key |-> "", use_finnhub_api |-> "absent"]
    /\ environ = ""
    /\ files \in {[price_data |-> f] : f \in PriceFiles}
    /\ pc = "idle"
    /\ call = NoCall
    /\ remote_response = NoResponse
    /\ result_str = <<>>
    /\ cache_result = NoCacheResult
    /\ events = <<>>
    /\ outcome = NoOutcome
    /\ prior = NoPrior

\* get_stock_stats_indicators_window up to its while loop
get_stock_stats_indicators_window(symbol, indicator, curr_date, look_back_days, online) ==
    /\ pc = "idle"
    /\ LET c == [kind |-> "indicators", symbol |-> symbol, indicator |-> indicator,
                 end_date |-> curr_date, curr_date |-> strptime(curr_date),
                 look_back_days |-> look_back_days,
                 before |-> strptime(curr_date) - look_back_days,
                 online |-> online, dates_in_df |-> {}, visited |-> <<>>]
           data == read_csv(files["price_data"])
       IN IF ~Supported(indicator)
          THEN /\ call' = c
               /\ events' = <<>>
               /\ pc' = "raised"
               /\ outcome' = ValueError(indicator)
          ELSE IF online
          THEN /\ call' = c
               /\ events' = <<>>
               /\ pc' = "WALK"
               /\ outcome' = NoOutcome
          ELSE IF data.exc # ""
          THEN /\ call' = c
               /\ events' = <<"read_csv">>
               /\ pc' = "raised"
               /\ outcome' = FileNotFoundError
          ELSE /\ call' = [c EXCEPT !.dates_in_df =
                              {to_datetime_utc(data.data[n]) : n \in 1..Len(data.data)}]
               /\ events' = <<"read_csv">>
               /\ pc' = "WALK"
               /\ outcome' = NoOutcome
    /\ result_str' = <<>>
    /\ UNCHANGED <<config, environ, files, remote_response, cache_result, prior>>

\* one iteration of the while loop; stats is what get_stock_stats does when
\* get_stockstats_indicator calls it. A sample records whether get_stock_stats
\* failed for it, and the call records the dates the cursor has visited.
WalkStep(stats) ==
    /\ pc = "WALK"
    /\ WalkContinues(call.curr_date, call.before)
    /\ LET indicator_value == get_stockstats_indicator(stats)
           visited == [call EXCEPT !.visited = Append(@, strftime(call.curr_date))]
       IN IF ~(call.online \/ TradingDay(strftime(call.curr_date), call.dates_in_df))
          THEN /\ call' = [visited EXCEPT !.curr_date = PreviousDay(@)]
               /\ UNCHANGED <<result_str, events, pc, outcome>>
          ELSE IF indicator_value.exc # ""
          THEN /\ call' = visited
               /\ events' = Append(events, "compute")
               /\ pc' = "raised"
               /\ outcome' = [type |-> "exception", tag |-> indicator_value.exc]
               /\ UNCHANGED result_str
          ELSE /\ result_str' = Append(result_str,
                                       [date |-> strftime(call.curr_date),
                                        value |-> indicator_value.data,
                                        failed |-> stats.exc])
               /\ events' = Append(events, "compute")
               /\ call' = [visited EXCEPT !.curr_date = PreviousDay(@)]
               /\ UNCHANGED <<pc, outcome>>
    /\ UNCHANGED <<config, environ, files, remote_response, cache_result, prior>>

\* the loop ends and the report is returned
WalkEnd ==
    /\ pc = "WALK"
    /\ ~WalkContinues(call.curr_date, call.before)
    /\ pc' = "returned"
    /\ outcome' = IndicatorReport(call, result_str)
    /\ UNCHANGED <<config, environ, files, call, remote_response, result_str,
                   cache_result, events, prior>>

get_YFin_data_window(symbol, curr_date, look_back_days) ==
    /\ pc = "idle"
    /\ LET c == [kind |-> "yfin_window", symbol |-> symbol,
                 start_date |-> BeforeDate(curr_date, look_back_days),
                 end_date |-> curr_date, look_back_days |-> look_back_days]
           data == read_csv(files["price_data"])
       IN /\ call' = c
          /\ events' = <<"read_csv">>
          /\ IF data.exc # ""
             THEN pc' = "raised" /\ outcome' = FileNotFoundError
             ELSE /\ pc' = "returned"
                  /\ outcome' = RawMarketData(c, Slice(data.data, c.start_date, curr_date))
    /\ result_str' = <<>>
    /\ UNCHANGED <<config, environ, files, remote_response, cache_result, prior>>

get_YFin_data(symbol, start_date, end_date) ==
    /\ pc = "idle"
    /\ LET c == [kind |-> "yfin_data", symbol |-> symbol, start_date |-> start_date,
                 end_date |-> end_date, look_back_days |-> 0]
           data == read_csv(files["price_data"])
       IN /\ call' = c
          /\ events' = <<"read_csv">>
          /\ IF data.exc # ""
             THEN pc' = "raised" /\ outcome' = FileNotFoundError
             ELSE IF AboveUpper(end_date)
             THEN pc' = "raised" /\ outcome' = OutsideRange(end_date)
             ELSE /\ pc' = "returned"
                  /\ outcome' = DataFrame(Slice(data.data, start_date, end_date))
    /\ result_str' = <<>>
    /\ UNCHANGED <<config, environ, files, remote_response, cache_result, prior>>

NextPrices ==
    \/ \E symbol \in Tickers, indicator \in IndicatorNames, curr_date \in IndicatorDates,
          look_back_days \in (0 - NegativeLookBack)..MaxWindow, online \in BOOLEAN :
          get_stock_stats_indicators_window(symbol, indicator, curr_date,
                                            look_back_days, online)
    \/ \E stats \in StockStats : WalkStep(stats)
    \/ WalkEnd
    \/ \E symbol \in Tickers, curr_date \in HistoryWindowDates,
          look_back_days \in 0..MaxWindow :
          get_YFin_data_window(symbol, curr_date, look_back_days)
    \/ \E symbol \in Tickers, start_date \in HistoryDates, end_date \in HistoryDates :
          get_YFin_data(symbol, start_date, end_date)
    \/ Return

SpecPrices == InitPrices /\ [][NextPrices]_vars

\* the while loop is sequential code: a call that is in it takes its next
\* iteration, or leaves it
SpecPricesFair ==
    /\ SpecPrices
    /\ WF_vars(\E stats \in StockStats : WalkStep(stats))
    /\ WF_vars(WalkEnd)

(***************************************************************************)
(* Every reader of a snapshot over one store: the three cache snapshots    *)
(* and the price snapshot side by side, with get_data_in_range, the five   *)
(* provider-backed functions and the three price functions as operations.  *)
(***************************************************************************)
InitStore ==
    /\ config \in [finnhub_api_key : {"", "cfg-key"}, use_finnhub_api : {"absent"}]
    /\ environ = ""
    /\ files \in {Store(l) @@ [price_data |-> f] :
                      l \in OneDateLayouts({Calendar[5]}, {Arr(<<1>>), JNum}),
                      f \in {NoPriceFile, PriceFile(SortedRows({<<2025, 3, 3>>}, 0))}}
    /\ pc = "idle"
    /\ call = NoCall
    /\ remote_response = NoResponse
    /\ result_str = <<>>
    /\ cache_result = NoCacheResult
    /\ events = <<>>
    /\ outcome = NoOutcome
    /\ prior = NoPrior

NextStore == Next \/ NextRange \/ NextPrices

SpecStore == InitStore /\ [][NextStore]_vars

(***************************************************************************)
(* generate_pdf_reports (utils/pdf_generator.py) over the results tree.    *)
(* In this part files maps a date to the tree under                        *)
(* results_dir/<symbol>/<date>: whether reports and reports_pdf are there  *)
(* (as a directory, or as a regular file), the *.md files of reports and   *)
(* the PDF files of reports_pdf.                                           *)
(***************************************************************************)
PdfDates == {Calendar[4], Calendar[5]}
MdNames == {"market_report.md", "final_trade_decision.md"}

\* the trees: a path that is no directory holds no file
Trees ==
    {tree \in [reports : {"absent", "file", "dir"}, md : SUBSET MdNames,
               reports_pdf : {"absent", "file", "dir"},
               pdfs : SUBSET {"analysis_report", "summary"}] :
        /\ tree.reports # "dir" => tree.md = {}
        /\ tree.reports_pdf # "dir" => tree.pdfs = {}}

\* reports_dir.is_dir()
is_dir(path) == path = "dir"

\* pdf_dir.mkdir(parents=True, exist_ok=True)
mkdir(tree) ==
    IF tree.reports_pdf = "dir" THEN Returned(tree)
    ELSE IF tree.reports_pdf = "file" THEN Raised("FileExistsError")
    ELSE Returned([tree EXCEPT !.reports_pdf = "dir"])

\* sorted(reports_dir.glob("*.md"))
glob_md(tree) == tree.md

\* pdfkit.from_string(html, str(out_pdf), ...) when wkhtmltopdf runs
from_string(tree, out_pdf) == [tree EXCEPT !.pdfs = @ \cup {out_pdf}]

\* {"error": f"..."}
ErrorResult(message) == [type |-> "result", tag |-> "error", message |-> message]

\* {"analysis": ..., "summary": ..., "output_dir": ...}
PdfResult(summary) ==
    [type |-> "result", tag |-> "ok", analysis |-> "analysis_report",
     summary |-> summary, output_dir |-> "reports_pdf"]

PdfException(name) == [type |-> "exception", tag |-> name]

InitPdf ==
    /\ config = [finnhub_api_key |-> "", use_finnhub_api |-> "absent"]
    /\ environ = ""
    /\ files \in [PdfDates -> Trees]
    /\ pc = "idle"
    /\ call = NoCall
    /\ remote_response = NoResponse
    /\ result_str = <<>>
    /\ cache_result = NoCacheResult
    /\ events = <<>>
    /\ outcome = NoOutcome
    /\ prior = NoPrior

\* generate_pdf_reports(symbol, date): analysis_ok and summary_ok tell whether
\* the two pdfkit.from_string calls succeed or raise OSError. The call keeps
\* the tree it found in its field tree.
generate_pdf_reports(symbol, date, analysis_ok, summary_ok) ==
    /\ pc = "idle"
    /\ LET tree == files[date]
           made == mkdir(tree)
           md_files == glob_md(tree)
           analysed == from_string(made.data, "analysis_report")
           summarised == from_string(analysed, "summary")
       IN /\ call' = [kind |-> "pdf", symbol |-> symbol, date |-> date, tree |-> tree]
          /\ IF ~is_dir(tree.reports)
             THEN /\ pc' = "returned"
                  /\ outcome' = ErrorResult("Reports directory not found")
                  /\ events' = <<>>
                  /\ UNCHANGED files
             ELSE IF made.exc # ""
             THEN /\ pc' = "raised"
                  /\ outcome' = PdfException(made.exc)
                  /\ events' = <<"mkdir">>
                  /\ UNCHANGED files
             ELSE IF md_files = {}
             THEN /\ pc' = "returned"
                  /\ outcome' = ErrorResult("No markdown files found")
                  /\ events' = <<"mkdir">>
                  /\ files' = [files EXCEPT ![date] = made.data]
             ELSE IF ~analysis_ok
             THEN /\ pc' = "raised"
                  /\ outcome' = PdfException("OSError")
                  /\ events' = <<"mkdir", "from_string">>
                  /\ files' = [files EXCEPT ![date] = made.data]
             ELSE IF "final_trade_decision.md" \notin md_files
             THEN /\ pc' = "returned"
                  /\ outcome' = PdfResult("")
                  /\ events' = <<"mkdir", "from_string">>
                  /\ files' = [files EXCEPT ![date] = analysed]
             ELSE IF ~summary_ok
             THEN /\ pc' = "raised"
                  /\ outcome' = PdfException("OSError")
                  /\ events' = <<"mkdir", "from_string", "from_string">>
                  /\ files' = [files EXCEPT ![date] = analysed]
             ELSE /\ pc' = "returned"
                  /\ outcome' = PdfResult("summary")
                  /\ events' = <<"mkdir", "from_string", "from_string">>
                  /\ files' = [files EXCEPT ![date] = summarised]
    /\ UNCHANGED <<config, environ, remote_response, result_str, cache_result, prior>>

NextPdf ==
    \/ \E symbol \in Tickers, date \in PdfDates, analysis_ok \in BOOLEAN,
          summary_ok \in BOOLEAN :
          generate_pdf_reports(symbol, date, analysis_ok, summary_ok)
    \/ Return

SpecPdf == InitPdf /\ [][NextPdf]_vars

(***************************************************************************)
(* Vocabulary of the properties.                                           *)
(***************************************************************************)
Finished == pc \in {"returned", "raised"}
Windowed == call.kind \in WindowedKinds
Range(s) == {s[i] : i \in 1..Len(s)}

\* a credential is configured and the live-data flag is not disabled
Configured ==
    /\ config.finnhub_api_key # "" \/ environ # ""
    /\ config.use_finnhub_api \in {"absent", "true"}

RemoteAsked == "remote" \in Range(events)
CacheAsked == "cache" \in Range(events)

\* the records the provider's answer carries for the kind of the call
RemoteItems ==
    LET b == remote_response.body
    IN IF remote_response.status # "ok" THEN <<>>
       ELSE IF call.kind = "news"
       THEN IF b.t = "arr" THEN b.items ELSE <<>>
       ELSE IF b.t = "obj" /\ "data" \in DOMAIN b.f /\ b.f["data"].t = "arr"
       THEN b.f["data"].items
       ELSE <<>>

\* the answer is a transport error, a non-2xx status or no JSON, or parsing
\* it raises: a record that is no mapping, a 'data' member that is no list
RemoteFailed ==
    /\ RemoteAsked
    /\ \/ remote_response.status \in FailureStatuses
       \/ \E e \in Range(RemoteItems) : e.t # "obj"
       \/ /\ remote_response.status = "ok"
          /\ call.kind # "news"
          /\ remote_response.body.t = "obj"
          /\ "data" \in DOMAIN remote_response.body.f
          /\ remote_response.body.f["data"].t # "arr"

\* the provider answered with at least one record and every record is a mapping
RemoteSucceededWithData ==
    /\ RemoteAsked
    /\ RemoteItems # <<>>
    /\ \A e \in Range(RemoteItems) : e.t = "obj"

\* the snapshot file of the kind of the call
TheFile == files[IF call.kind = "news" THEN "news_data" ELSE call.kind]

\* the snapshot of the call is a date-keyed mapping of sequences of records
\* that have every member the report prints
WellFormedSnapshot ==
    /\ TheFile.exists /\ TheFile.valid /\ TheFile.body.t = "obj"
    /\ \A p \in Range(TheFile.body.pairs) :
          /\ p.value.t = "arr"
          /\ \A e \in Range(p.value.items) :
                e.t = "obj" /\ RequiredMembers(call.kind) \subseteq DOMAIN e.f

\* the date key lies in the window of the call, by the calendar
InWindow(key) ==
    /\ strptime(call.before) <= strptime(key)
    /\ strptime(key) <= strptime(call.curr_date)

\* the dates of the snapshot that lie in the window and have records
WindowPairs ==
    IF TheFile.exists /\ TheFile.valid /\ TheFile.body.t = "obj"
    THEN {p \in Range(TheFile.body.pairs) :
            InWindow(p.key) /\ p.value.t = "arr" /\ p.value.items # <<>>}
    ELSE {}

\* what the cached branch prints for the records of the window
WindowEntries ==
    UNION {{CacheEntry(call.kind, p.key, e) : e \in Range(p.value.items)} :
             p \in WindowPairs}

\* what the real-time branch prints for the records of the provider's answer
RemoteEntries == {RemoteEntry(call.kind, e) : e \in Range(RemoteItems)}

\* the remote attempt was skipped, or the provider's answer carries no record
RemoteYieldsNoData == ~RemoteAsked \/ RemoteItems = <<>>

\* the snapshot is missing, is no JSON, or is a well-formed snapshot with no
\* records in the window
CacheYieldsNoData ==
    /\ WindowPairs = {}
    /\ ~TheFile.exists \/ ~TheFile.valid \/ WellFormedSnapshot

(***************************************************************************)
(* Properties.                                                             *)
(***************************************************************************)

\* C1: for news, insider sentiment and insider transactions, a call whose
\* provider request succeeded with data returns a report tagged "Real-time",
\* whatever the snapshot holds (nothing, records, no file, malformed
\* content), and the call does not read the snapshot.
C1_RealTimeWhenRemoteHasData ==
    (Finished /\ Windowed /\ RemoteSucceededWithData) =>
        /\ pc = "returned"
        /\ outcome.type = "report"
        /\ outcome.tag = "Real-time"
        /\ events = <<"remote">>
        /\ cache_result = NoCacheResult

\* C1 witness: a "Real-time" report returned while the snapshot of the kind
\* exists and is malformed.
C1_Witness ==
    /\ pc = "returned" /\ Windowed /\ RemoteSucceededWithData
    /\ outcome.tag = "Real-time"
    /\ TheFile.exists /\ ~WellFormedSnapshot

\* C2: for news, insider sentiment and insider transactions, when the provider
\* request fails (transport error, non-2xx, exception while parsing) and the
\* snapshot (a date-keyed mapping of complete records) has a non-empty date in
\* the window, the call returns a report tagged "Cached" whose entries are the
\* records of the in-window dates.
C2_CachedWhenRemoteFails ==
    (Finished /\ Windowed /\ RemoteFailed /\ WellFormedSnapshot /\ WindowPairs # {}) =>
        /\ pc = "returned"
        /\ outcome.type = "report"
        /\ outcome.tag = "Cached"
        /\ Range(outcome.entries) = WindowEntries

\* C2 witness: a "Cached" report with two different entries after the remote
\* branch raised while formatting.
C2_Witness ==
    /\ pc = "returned" /\ Windowed /\ RemoteFailed
    /\ remote_response.status = "ok"
    /\ WellFormedSnapshot /\ outcome.tag = "Cached"
    /\ Cardinality(Range(outcome.entries)) = 2

\* C3: for news, insider sentiment and insider transactions, when the provider
\* yields no data and the snapshot yields no data for the window, the call
\* returns the "No ... data available for <symbol> from <start> to <end>"
\* message and raises nothing.
C3_NoDataMessageWhenBothEmpty ==
    (Finished /\ Windowed /\ RemoteYieldsNoData /\ CacheYieldsNoData) =>
        /\ pc = "returned"
        /\ outcome = NoDataMessage(call)

\* C4: a retrieval call never raises to its caller: whatever the provider
\* answers and whatever the snapshot holds, it returns a report or an explicit
\* "no data" text.
C4_NeverRaises ==
    /\ pc # "raised"
    /\ pc = "returned" => outcome.type \in {"report", "message"}

\* C5: an empty but successful provider answer always leads to the snapshot:
\* a "Real-time" report is returned only when the answer carries at least one
\* record, for every windowed kind.
C5_RealTimeOnlyWithRecords ==
    /\ (pc = "returned" /\ Windowed /\ outcome.tag = "Real-time") => RemoteItems # <<>>
    /\ (Finished /\ Windowed /\ RemoteAsked /\ remote_response.status = "ok"
            /\ RemoteItems = <<>>) => CacheAsked

\* C6: a call issues a provider request only if a credential is configured and
\* use_finnhub_api is enabled; otherwise the provider receives no request in
\* that call and only the cached branch runs.
C6_RemoteOnlyWhenConfigured ==
    /\ RemoteAsked => Configured
    /\ pc = "ATTEMPT_REMOTE" => Configured
    /\ (Finished /\ ~Configured) => events = IF Windowed THEN <<"cache">> ELSE <<>>

\* C6 witness: a finished call that read only the snapshot although a
\* credential is configured, the flag being disabled.
C6_Witness ==
    /\ Finished /\ Windowed /\ events = <<"cache">>
    /\ config.finnhub_api_key # "" /\ config.use_finnhub_api = "false"

C8_SingleSource ==
    Finished =>
        /\ outcome.type # "report" => outcome.entries = <<>>
        /\ (outcome.type = "report" /\ outcome.tag = "Cached") =>
              /\ \A e \in Range(outcome.entries) : e.src = "cache"
              /\ Range(outcome.entries) \subseteq WindowEntries
        /\ (outcome.type = "report" /\ outcome.tag # "Cached") =>
              /\ \A e \in Range(outcome.entries) : e.src = "remote"
              /\ Windowed => Range(outcome.entries) \subseteq RemoteEntries

\* C8 witness: a "Cached" report returned after the real-time branch had
\* formatted its first record and raised on its second.
C8_Witness ==
    /\ pc = "returned" /\ outcome.tag = "Cached" /\ outcome.entries # <<>>
    /\ events = <<"remote", "cache">>
    /\ Len(RemoteItems) = 2 /\ RemoteItems[1].t = "obj" /\ RemoteItems[2].t # "obj"

\* C9 (as claimed): for every kind, company profile and basic financials
\* included, a call whose remote attempt was skipped or failed reads the
\* snapshot before it returns a "no data" text.
C9_EveryKindFallsBack ==
    (Finished /\ (~RemoteAsked \/ RemoteFailed) /\ outcome.type = "message") => CacheAsked

\* C9 (amended): for news, insider sentiment and insider transactions a call
\* whose remote attempt was skipped or failed reads the snapshot before it
\* returns; a company profile or basic financials call never reads a snapshot
\* and returns the "not available" text when its remote attempt was skipped or
\* failed.
C9_WindowedKindsFallBack ==
    Finished =>
        /\ (Windowed /\ (~RemoteAsked \/ RemoteFailed)) => CacheAsked
        /\ ~Windowed => ~CacheAsked
        /\ (~Windowed /\ (~RemoteAsked \/ RemoteFailed)) =>
              pc = "returned" /\ outcome = NoDataMessage(call)

\* C9 witness: a basic financials call whose provider request failed and that
\* returned the "not available" text without a snapshot read.
C9_Witness ==
    /\ pc = "returned" /\ call.kind = "financials" /\ RemoteFailed
    /\ outcome.type = "message" /\ events = <<"remote">>

\* C10: for start <= end, get_data_in_range returns exactly the entries of the
\* snapshot whose date lies in [start, end] by the calendar, both ends
\* included, and whose record sequence is not empty.
C10_RangeFilterInclusive ==
    (Finished /\ WellFormedSnapshot
        /\ strptime(call.before) <= strptime(call.curr_date)) =>
        /\ pc = "returned"
        /\ cache_result.exc = ""
        /\ Range(cache_result.data) = WindowPairs
        /\ Len(cache_result.data) = Cardinality(WindowPairs)

\* C10 witness: a query over more than one day that returned the entry dated
\* start and the entry dated end.
C10_Witness ==
    /\ pc = "returned" /\ WellFormedSnapshot
    /\ strptime(call.before) < strptime(call.curr_date)
    /\ \E p, q \in Range(cache_result.data) :
          p.key = call.before /\ q.key = call.curr_date

\* the snapshot of the call is a JSON value that is no mapping
NotAMapping == TheFile.exists /\ TheFile.valid /\ TheFile.body.t # "obj"

\* the snapshot of the call maps a date to a value that is no sequence
NonSequenceDate ==
    /\ TheFile.exists /\ TheFile.valid /\ TheFile.body.t = "obj"
    /\ \E p \in Range(TheFile.body.pairs) : p.value.t # "arr"

\* C11: get_data_in_range returns an empty mapping and raises nothing when the
\* snapshot file is absent, is no JSON, or is a JSON value that is no mapping;
\* it raises nothing either when a date is mapped to a value that is no
\* sequence.
C11_MalformedYieldsEmpty ==
    /\ (Finished /\ CacheAsked /\ (~TheFile.exists \/ ~TheFile.valid \/ NotAMapping)) =>
          pc = "returned" /\ cache_result = Returned(<<>>)
    /\ (Finished /\ CacheAsked /\ NonSequenceDate) =>
          pc = "returned" /\ cache_result.exc = ""

\* the source records behind the entries of a report, in the order printed
Raw(entries) == [n \in 1..Len(entries) |-> entries[n].raw]

\* the records of the snapshot that the cached loop of the call ran over
CacheItems ==
    LET recs == Flatten(cache_result.data, 1)
    IN [n \in 1..Len(recs) |-> recs[n].entry]

\* a report whose loop skips records it has printed before: the cached loops
\* of the insider functions and the real-time loop of insider transactions
Deduplicated ==
    /\ pc = "returned" /\ outcome.type = "report"
    /\ \/ outcome.tag = "Cached" /\ call.kind \in InsiderKinds
       \/ outcome.tag = "Real-time" /\ call.kind = "insider_trans"

\* the record sequence that loop ran over
DedupInput == IF outcome.tag = "Cached" THEN CacheItems ELSE RemoteItems

\* the loop of the report run over a record sequence X: the records it prints
Dedup(X) ==
    IF outcome.tag = "Cached"
    THEN Raw(CacheLoop(call.kind, [n \in 1..Len(X) |-> [day |-> NoDate, entry |-> X[n]]],
                       1, <<>>, <<>>).text)
    ELSE Raw(RemoteLoop(call.kind, X, 1, <<>>, {}).text)

\* two records have the same key for the loop of the report
SameKey(a, b) == IF outcome.tag = "Cached" THEN a = b ELSE trans_id(a) = trans_id(b)

RECURSIVE Pick(_, _, _)
Pick(X, I, i) ==
    IF i > Len(X) THEN <<>>
    ELSE (IF i \in I THEN <<X[i]>> ELSE <<>>) \o Pick(X, I, i + 1)

\* the subsequence of the records of X that are the first with their key
FirstOccurrences(X) ==
    Pick(X, {i \in 1..Len(X) : \A j \in 1..(i - 1) : ~SameKey(X[j], X[i])}, 1)

\* C12: the records a deduplicating loop prints are the first occurrences of
\* each key of its input, in input order, and running the loop over its own
\* output gives the same sequence again.
C12_DedupIdempotent ==
    Deduplicated =>
        /\ Raw(outcome.entries) = Dedup(DedupInput)
        /\ Dedup(DedupInput) = FirstOccurrences(DedupInput)
        /\ Dedup(Dedup(DedupInput)) = Dedup(DedupInput)

\* C12 witness: a real-time transactions report over three records whose
\* third has the key of the first and differs from it, and whose second has
\* another key; the report prints the first and the second.
C12_Witness ==
    /\ Deduplicated /\ outcome.tag = "Real-time"
    /\ Len(DedupInput) = 3
    /\ SameKey(DedupInput[1], DedupInput[3]) /\ DedupInput[1] # DedupInput[3]
    /\ ~SameKey(DedupInput[1], DedupInput[2])
    /\ Raw(outcome.entries) = <<DedupInput[1], DedupInput[2]>>

\* what an entry of an insider transactions report prints for the key members
TransKey(e) == <<e.filingDate, e.name, e.change>>

\* C13: in an insider transactions report, from the provider or from the
\* snapshot, no two entries share (filingDate, name, change): of the records
\* that share them only the first is printed.
C13_TransCollapsedByKey ==
    (pc = "returned" /\ call.kind = "insider_trans" /\ outcome.type = "report") =>
        \A m, n \in 1..Len(outcome.entries) :
            m # n => TransKey(outcome.entries[m]) # TransKey(outcome.entries[n])

\* what an entry of an insider sentiment report prints
SentiKey(e) == <<e.year, e.month, e.change, e.mspr>>

\* C14: in an insider sentiment report, from the provider or from the
\* snapshot, every record of the input is printed and no two entries are
\* equal in (year, month, change, mspr).
C14_SentiFullEquality ==
    (pc = "returned" /\ call.kind = "insider_senti" /\ outcome.type = "report") =>
        /\ \A m, n \in 1..Len(outcome.entries) :
              m # n => SentiKey(outcome.entries[m]) # SentiKey(outcome.entries[n])
        /\ \A r \in Range(IF outcome.tag = "Cached" THEN CacheItems ELSE RemoteItems) :
              \E n \in 1..Len(outcome.entries) : outcome.entries[n].raw = r

\* C19: on a transport failure, a non-2xx status or a body that is no JSON,
\* no exception leaves the FinnhubAPI method of the call, and the method
\* returns an empty result: the empty sequence for company news, the empty
\* mapping for the others.
C19_ProviderFaultsAbsorbed ==
    (RemoteAsked /\ remote_response.status \in FailureStatuses) =>
        /\ Propagates(remote_response) = ""
        /\ CASE call.kind = "news" -> get_company_news(remote_response) = <<>>
             [] call.kind = "insider_senti" ->
                  get_insider_sentiment(remote_response) = EmptyObj
             [] call.kind = "insider_trans" ->
                  get_insider_transactions(remote_response) = EmptyObj
             [] call.kind = "profile" -> get_company_profile(remote_response) = EmptyObj
             [] call.kind = "financials" ->
                  get_basic_financials(remote_response) = EmptyObj
        /\ Finished => pc = "returned" \/ CacheAsked

\* C19 witness: a company profile call whose provider answered with a body
\* that is no JSON and that returned the "not available" text.
C19_Witness ==
    /\ pc = "returned" /\ call.kind = "profile"
    /\ remote_response.status = "badjson"
    /\ outcome = NoDataMessage(call)

\* the rows of the price snapshot and whether the file is there
PriceRows == files["price_data"].rows
PriceSnapshotExists == files["price_data"].exists

\* the dates of the price snapshot, as days in UTC
SnapshotDates == {to_datetime_utc(PriceRows[n]) : n \in 1..Len(PriceRows)}

\* an indicator window call has returned its report
IndicatorReturned(online) ==
    pc = "returned" /\ call.kind = "indicators" /\ call.online = online

\* the calendar days of [currentDate - lookBackDays, currentDate]
WindowDays ==
    {strftime(d) : d \in (strptime(call.end_date) - call.look_back_days)
                             ..strptime(call.end_date)}

SampleDates == {outcome.samples[n].date : n \in 1..Len(outcome.samples)}

SupportedNames ==
    {"close_50_sma", "close_200_sma", "close_10_ema", "macd", "macds", "macdh",
     "rsi", "boll", "boll_ub", "boll_lb", "atr", "vwma", "mfi"}

\* C16: get_stock_stats_indicators_window called with a name outside the
\* supported set raises ValueError with a message listing every supported
\* name, before any snapshot read and any indicator computation; it never
\* walks the window and never returns a report.
C16_UnsupportedIndicatorRejected ==
    (call.kind = "indicators" /\ call.indicator \notin SupportedNames) =>
        /\ pc = "raised"
        /\ outcome.type = "exception" /\ outcome.tag = "ValueError"
        /\ Range(outcome.names) = SupportedNames
        /\ events = <<>>
        /\ result_str = <<>>

\* C16 witness: an offline call with an unsupported name that raised
\* ValueError although the snapshot file is missing.
C16_Witness ==
    /\ pc = "raised" /\ call.kind = "indicators"
    /\ call.indicator \notin SupportedNames
    /\ ~call.online /\ ~PriceSnapshotExists
    /\ outcome.tag = "ValueError"

\* the rows of the snapshot dated within [start, end] by the calendar
RowsBetween(start_date, end_date) ==
    {r \in Range(PriceRows) :
        /\ strptime(start_date) <= strptime(r.day)
        /\ strptime(r.day) <= strptime(end_date)}

\* C17: with the snapshot in place, get_YFin_data with end date 2025-03-25
\* returns the rows dated within [start, end]; with end date 2025-03-26 it
\* raises a failure whose message names 2015-01-01 and 2025-03-25.
C17_HistoryUpperBound ==
    (Finished /\ call.kind = "yfin_data" /\ PriceSnapshotExists) =>
        /\ call.end_date = <<2025, 3, 25>> =>
              /\ pc = "returned"
              /\ outcome.type = "frame"
              /\ Range(outcome.rows) = RowsBetween(call.start_date, call.end_date)
        /\ call.end_date = <<2025, 3, 26>> =>
              /\ pc = "raised"
              /\ outcome.tag = "Exception"
              /\ outcome.lower = <<2015, 1, 1>> /\ outcome.upper = <<2025, 3, 25>>

\* C17 witness: a query ending on 2025-03-25 that returned the row of that
\* day.
C17_Witness ==
    /\ pc = "returned" /\ call.kind = "yfin_data"
    /\ call.end_date = <<2025, 3, 25>>
    /\ \E r \in Range(outcome.rows) : r.day = <<2025, 3, 25>>

\* C18: with the snapshot in place, a raw price query (get_YFin_data or
\* get_YFin_data_window) whose range starts before 2015-01-01 or ends after
\* 2025-03-25 raises; it never returns rows or an empty result.
C18_OutOfRangeIsHardError ==
    (Finished /\ call.kind \in {"yfin_data", "yfin_window"} /\ PriceSnapshotExists
        /\ \/ strptime(call.start_date) < strptime(<<2015, 1, 1>>)
           \/ strptime(call.end_date) > strptime(<<2025, 3, 25>>)) =>
        pc = "raised"

\* C20: online, the report of get_stock_stats_indicators_window has one sample
\* for every calendar day from currentDate down to currentDate - lookBackDays,
\* lookBackDays + 1 samples in that order for lookBackDays >= 0, whether or
\* not the day is a date of the snapshot.
C20_OnlineSamplesEveryDay ==
    IndicatorReturned(TRUE) =>
        /\ call.look_back_days >= 0 => Len(outcome.samples) = call.look_back_days + 1
        /\ \A n \in 1..Len(outcome.samples) :
              outcome.samples[n].date = strftime(strptime(call.end_date) - (n - 1))

\* C20 witness: an online report of four samples, one of them for a day that
\* is no date of the snapshot.
C20_Witness ==
    /\ IndicatorReturned(TRUE)
    /\ Len(outcome.samples) = 4
    /\ PriceSnapshotExists
    /\ SampleDates \ SnapshotDates # {}

\* C21: get_YFin_data and get_YFin_data_window return exactly the rows of the
\* snapshot dated d with start <= d <= end by the calendar, the rows dated
\* start and end included, in snapshot order.
C21_HistorySliceInclusive ==
    (pc = "returned" /\ call.kind \in {"yfin_data", "yfin_window"}) =>
        outcome.rows =
            Pick(PriceRows,
                 {i \in 1..Len(PriceRows) :
                     /\ strptime(call.start_date) <= strptime(PriceRows[i].day)
                     /\ strptime(PriceRows[i].day) <= strptime(call.end_date)}, 1)

\* C21 witness: a slice over more than one day whose first row is dated start
\* and whose last row is dated end, a row of the snapshot being left out.
C21_Witness ==
    /\ pc = "returned" /\ call.kind \in {"yfin_data", "yfin_window"}
    /\ Len(outcome.rows) >= 2
    /\ outcome.rows[1].day = call.start_date
    /\ outcome.rows[Len(outcome.rows)].day = call.end_date
    /\ Len(outcome.rows) < Len(PriceRows)

\* the records of the in-window, non-empty dates of a snapshot, date by date
\* in snapshot order, each with its date
RECURSIVE WindowRecords(_, _)
WindowRecords(pairs, i) ==
    IF i > Len(pairs) THEN <<>>
    ELSE (IF InWindow(pairs[i].key) /\ pairs[i].value.items # <<>>
          THEN [n \in 1..Len(pairs[i].value.items) |->
                   [date |-> pairs[i].key, raw |-> pairs[i].value.items[n]]]
          ELSE <<>>) \o WindowRecords(pairs, i + 1)

\* C22: a cached news report has one entry for every record of every
\* in-window, non-empty date of the snapshot, in snapshot order; a record that
\* occurs twice in the snapshot occurs twice in the report.
C22_NewsConcatenated ==
    (pc = "returned" /\ call.kind = "news" /\ outcome.tag = "Cached") =>
        [n \in 1..Len(outcome.entries) |->
            [date |-> outcome.entries[n].date, raw |-> outcome.entries[n].raw]]
            = WindowRecords(TheFile.body.pairs, 1)

\* C22 witness: a cached news report of four entries whose first, second and
\* third are of the same record, the second on the date of the first and the
\* third on another date.
C22_Witness ==
    /\ pc = "returned" /\ call.kind = "news" /\ outcome.tag = "Cached"
    /\ Len(outcome.entries) = 4
    /\ outcome.entries[1] = outcome.entries[2]
    /\ outcome.entries[3].raw = outcome.entries[1].raw
    /\ outcome.entries[3].date # outcome.entries[1].date

\* the (filingDate, name, change) tuple of a record of the provider's answer,
\* each member as trans_id reads it
TransTuple(e) ==
    <<Get(e, "filingDate", ""), Get(e, "name", ""),
      IF "change" \in DOMAIN e.f THEN ToStr(e.f["change"]) ELSE "">>

\* C26: a real-time insider transactions report prints a record of the
\* provider's answer exactly when no earlier record has its (filingDate, name,
\* change) tuple: records whose tuples differ are never taken for duplicates.
C26_TransIdInjective ==
    (pc = "returned" /\ call.kind = "insider_trans" /\ outcome.tag = "Real-time") =>
        Raw(outcome.entries) =
            Pick(RemoteItems,
                 {i \in 1..Len(RemoteItems) :
                     \A j \in 1..(i - 1) :
                         TransTuple(RemoteItems[j]) # TransTuple(RemoteItems[i])}, 1)

\* C29: a report tagged "Cached" has at least one entry, and each of its
\* entries is of a record of an in-window date of the snapshot.
C29_CachedHasAnEntry ==
    (pc = "returned" /\ Windowed /\ outcome.tag = "Cached") =>
        /\ outcome.entries # <<>>
        /\ \A n \in 1..Len(outcome.entries) :
              \E p \in WindowPairs : outcome.entries[n].raw \in Range(p.value.items)

\* C29 witness: a cached insider report over a date that holds the same
\* record twice: the report has one entry.
C29_Witness ==
    /\ pc = "returned" /\ call.kind \in InsiderKinds /\ outcome.tag = "Cached"
    /\ Len(CacheItems) = 2
    /\ Len(outcome.entries) = 1


\* the dates the cursor has visited whose indicator was asked for
Asked == SelectSeq(call.visited, LAMBDA d : call.online \/ d \in call.dates_in_df)

\* C27: when get_stock_stats fails for a cursor date, the window call does not
\* raise: the sample of that date is emitted with an empty value and the walk
\* goes on, so that the samples are always those of every visited date whose
\* indicator was asked for; a supported call raises only before the walk.
C27_FailureAbsorbed ==
    (call.kind = "indicators" /\ call.indicator \in SupportedNames
        /\ pc \in {"WALK", "returned", "raised"}) =>
        /\ pc = "raised" => (outcome.tag = "FileNotFoundError" /\ call.visited = <<>>)
        /\ \A n \in 1..Len(result_str) :
              result_str[n].failed => result_str[n].value = ""
        /\ [n \in 1..Len(result_str) |-> result_str[n].date] = Asked
        /\ pc = "returned" => outcome.samples = result_str

\* C27 witness: a report whose first sample is of a failed computation and
\* empty, followed by a sample of a computation that succeeded.
C27_Witness ==
    /\ pc = "returned" /\ call.kind = "indicators"
    /\ Len(outcome.samples) >= 2
    /\ outcome.samples[1].failed /\ outcome.samples[1].value = ""
    /\ ~outcome.samples[2].failed /\ outcome.samples[2].value # ""

\* the number of dates of [currentDate - look_back_days, currentDate]
WindowLength == IF call.look_back_days < 0 THEN 0 ELSE call.look_back_days + 1

\* the cursor has visited the newest dates of the window, one after the other,
\* and the samples are newest first without a repeated date
WalkDescends ==
    (call.kind = "indicators" /\ pc \in {"WALK", "returned"}) =>
        /\ Len(call.visited) <= WindowLength
        /\ \A n \in 1..Len(call.visited) :
              call.visited[n] = strftime(strptime(call.end_date) - (n - 1))
        /\ pc = "returned" => Len(call.visited) = WindowLength
        /\ \A m, n \in 1..Len(result_str) :
              m < n => strptime(result_str[n].date) < strptime(result_str[m].date)
        /\ call.look_back_days < 0 => (call.visited = <<>> /\ result_str = <<>>)

\* C28: for every look_back_days, negative ones included, the window loop is
\* left and the report returned; the cursor visits each date of
\* [currentDate - look_back_days, currentDate] once, newest first, and none when
\* look_back_days is negative.
C28_WindowWalkTerminates ==
    /\ []WalkDescends
    /\ (pc = "WALK") ~> (pc = "returned")

\* C28 witness: an offline report after a walk over four dates, two of them
\* sampled.
C28_Witness ==
    /\ pc = "returned" /\ call.kind = "indicators" /\ ~call.online
    /\ Len(call.visited) = 4
    /\ Len(outcome.samples) = 2


\* the three terminal outcomes of a retrieval call
REMOTE_OK ==
    /\ pc = "returned" /\ outcome.type = "report"
    /\ outcome.tag = RealTimeTag(call.kind)
    /\ Windowed => outcome.entries # <<>>
CACHE_OK ==
    /\ pc = "returned" /\ outcome.type = "report"
    /\ outcome.tag = "Cached" /\ outcome.entries # <<>>
EMPTY == pc = "returned" /\ outcome = NoDataMessage(call)

\* C23: a retrieval call that has ended has ended in REMOTE_OK (a report of
\* the provider's records), CACHE_OK (a report of the snapshot's records) or
\* EMPTY (the "no data" text), and a call whose provider request failed has
\* gone through the snapshot read.
C23_TerminalOutcome ==
    Finished =>
        /\ REMOTE_OK \/ CACHE_OK \/ EMPTY
        /\ (Windowed /\ RemoteFailed) => CacheAsked


\* C24: no step of get_data_in_range, of a provider-backed function or of a
\* price function changes a snapshot: the three cache snapshots and the price
\* snapshot are after every step what they were before it.
C24_SnapshotsUnchanged == [][files' = files]_vars

\* C24 witness: a cached report has been returned from a snapshot that is on
\* disk, next to a price snapshot that is on disk.
C24_Witness ==
    /\ pc = "returned" /\ Windowed /\ outcome.tag = "Cached"
    /\ TheFile.exists /\ CacheAsked
    /\ "price_data" \in DOMAIN files /\ files["price_data"].exists


\* the call is the repetition of a call, and has ended
Repeated == Finished /\ prior.exists

\* C25: a call repeated with the same arguments, configuration, snapshots and
\* provider answer ends as the first one did, with the same report: nothing
\* the first call has seen or printed is missing from, or added to, the report
\* of the second.
C25_NoStateSurvives ==
    Repeated =>
        /\ pc = prior.pc
        /\ outcome = prior.outcome
        /\ (pc = "returned" /\ outcome.type = "report") =>
              /\ outcome.tag = "Cached" => outcome.entries[1].raw = CacheItems[1]
              /\ (outcome.tag = "Real-time" /\ RemoteItems # <<>>) =>
                    outcome.entries[1].raw = RemoteItems[1]

\* C25 witness: an insider transactions call repeated after the provider
\* failed, both calls having printed the same two records of the snapshot and
\* skipped a third.
C25_Witness ==
    /\ Repeated /\ pc = "returned" /\ call.kind = "insider_trans"
    /\ outcome.tag = "Cached"
    /\ Len(outcome.entries) = 2 /\ Len(prior.outcome.entries) = 2
    /\ Len(CacheItems) = 3
    /\ prior.call.seen_dicts = Raw(outcome.entries)


\* C30: when generate_pdf_reports returns an error result, the results tree
\* is what the call found: no file and no directory has been created.
C30_ErrorLeavesTreeUnchanged ==
    (pc = "returned" /\ call.kind = "pdf" /\ outcome.tag = "error") =>
        files[call.date] = call.tree

====
